---- MODULE Spec2Model ----
(***************************************************************************)
(* Model of the auto-update commands of src-tauri/src/main.rs: the two     *)
(* tauri commands check_for_updates and download_and_install_update, the   *)
(* background check spawned by the setup closure, and the invoke handler.  *)
(* The updater plugin (release source, download stream, apply step) and    *)
(* the event channel are the environment: their answers are chosen         *)
(* nondeterministically.  Every `.await` of the source is a step boundary. *)
(***************************************************************************)
EXTENDS Integers, Sequences, FiniteSets, TLC

\* ------------------------------------------------------------------ bounds
MaxTasks == 2          \* command invocations per process run
MaxChunks == 1         \* chunks a download stream delivers at most

\* --------------------------------------------------------------- constants
GracePeriod == 5       \* tokio::time::Duration::from_secs(5)

\* the releases the release source can report: <<version, body>>, the body an
\* Option<String> written as a sequence of length at most one
Releases == {<<"1.2.0", <<"bugfixes">>>>, <<"1.3.0", <<>>>>}
QueryErrors == {"network error"}

VARIABLES setupResult, elapsed, startup, tasks, emitted, cancelReq, emitOk

vars == <<setupResult, elapsed, startup, tasks, emitted, cancelReq, emitOk>>

\* ----------------------------------------------------------- value helpers
Ok(s) == <<"Ok", s>>
Err(s) == <<"Err", s>>
NoResult == <<>>
Pending == <<"Pending">>

\* what updater.check().await can resolve to
Answers ==
  {<<"None">>}
    \cup {<<"Some", r[1], r[2]>> : r \in Releases}
    \cup {<<"Err", e>> : e \in QueryErrors}

IsSome(a) == a[1] = "Some"

\* update.body.clone().unwrap_or_default()
UnwrapOrDefault(o) == IF o = <<>> THEN "" ELSE o[1]

\* the two fields of the payload filled the wrong way round
UpdatePayload_Swapped(message, version) ==
  [message |-> version, version |-> message]

UpdatePayload(message, version) == [message |-> message, version |-> version]

\* the Result app.emit hands back: whether the event channel of this run
\* accepts notifications is the environment's, fixed when the process starts
EmitResult == IF emitOk THEN <<"Ok", "()">> ELSE <<"Err", "emit failed">>

\* app.emit(event, payload).ok(): one call on the event channel; the Result
\* of the call is discarded
Emit(op, event, payload) == [op |-> op, event |-> event, payload |-> payload]

\* the commands registered with the invoke handler
Handlers == {"check_for_updates", "download_and_install_update", "open_external"}

\* -------------------------------------------------------- check_for_updates
\* the emit moved out of the Ok(Some(update)) arm: every answered query emits
CheckEmits_EveryAnswer(op, a) ==
  <<Emit(op, "update-available",
         IF IsSome(a) THEN UpdatePayload(UnwrapOrDefault(a[3]), a[2])
         ELSE UpdatePayload("", ""))>>

\* a failed query broadcast as well as returned
CheckEmits_OnError(op, a) ==
  IF IsSome(a)
    THEN <<Emit(op, "update-available",
                UpdatePayload(UnwrapOrDefault(a[3]), a[2]))>>
    ELSE IF a[1] = "Err"
      THEN <<Emit(op, "update-failed", a[2])>>
      ELSE <<>>

CheckEmits(op, a) ==
  IF IsSome(a)
    THEN <<Emit(op, "update-available",
                UpdatePayload(UnwrapOrDefault(a[3]), a[2]))>>
    ELSE <<>>

\* the Err arm folded into the "nothing found" arm
CheckReturn_SwallowsError(a) ==
  CASE a[1] = "Some" -> Ok("Update available: " \o a[2])
    [] a[1] = "None" -> Ok("No updates available")
    [] a[1] = "Err" -> Ok("No updates available")

\* a remembered failure: once a command has returned Err, checks keep failing
CheckReturn_Sticky(a) ==
  IF \E u \in 1..Len(tasks) :
       tasks[u].result # <<>> /\ tasks[u].result[1] = "Err"
    THEN Err("previous check failed")
    ELSE CASE a[1] = "Some" -> Ok("Update available: " \o a[2])
           [] a[1] = "None" -> Ok("No updates available")
           [] a[1] = "Err" -> Err(a[2])

CheckReturn(a) ==
  CASE a[1] = "Some" -> Ok("Update available: " \o a[2])
    [] a[1] = "None" -> Ok("No updates available")
    [] a[1] = "Err" -> Err(a[2])

\* ---------------------------------------------- download_and_install_update
InstallEmits(op, a) ==
  IF IsSome(a)
    THEN <<Emit(op, "update-download-started", <<>>)>>
    ELSE <<>>

\* the download started whatever the query answered
InstallNextPc_Always(a) == "downloading"

\* the emit's Result propagated with `?`: no download when the emit failed
InstallNextPc_EmitChecked(a) ==
  IF IsSome(a) /\ EmitResult[1] = "Ok" THEN "downloading" ELSE "done"

InstallNextPc(a) == IF IsSome(a) THEN "downloading" ELSE "done"

InstallReturn(a) ==
  CASE a[1] = "Some" -> NoResult
    [] a[1] = "None" -> Ok("No updates available")
    [] a[1] = "Err" -> Err(a[2])

\* the progress callback |_event, _data| {} of download_and_install
ProgressCallback(op, chunks) == <<>>

\* the Result of download_and_install dropped: success reported regardless
DownloadFailedReturn_Swallowed(e) ==
  Ok("Update downloaded and installed successfully")

\* map_err(|e| e.to_string())? on a failed download_and_install
DownloadFailedReturn(e) == Err(e)

InstallSuccessReturn == Ok("Update downloaded and installed successfully")

\* ------------------------------------------------------------------- tasks
\* a transfer offset kept across calls: after a failed download the next
\* command starts from the stored offset
NewTask_Resume(cmd, updaterOk) ==
  [kind |-> cmd,
   pc |-> IF updaterOk THEN "checking" ELSE "done",
   answer |-> Pending,
   chunks |-> IF \E u \in 1..Len(tasks) :
                   tasks[u].result = Err("download error")
              THEN 1 ELSE 0,
   result |-> IF updaterOk THEN NoResult ELSE Err("updater unavailable")]

\* a command future after its first poll: app.updater() has been tried and,
\* when it succeeded, updater.check() is pending
NewTask(cmd, updaterOk) ==
  [kind |-> cmd,
   pc |-> IF updaterOk THEN "checking" ELSE "done",
   answer |-> Pending,
   chunks |-> 0,      \* chunks of the transfer in flight
   result |-> IF updaterOk THEN NoResult ELSE Err("updater unavailable")]

TaskIds == 1..Len(tasks)

\* the startup task has operation id 0
StartupOp == 0

\* the sleep left out: the background check starts at once
SleepElapsed_NoSleep == TRUE

\* tokio::time::sleep(from_secs(5)).await has completed
SleepElapsed == elapsed >= GracePeriod

\* the process before tauri::Builder runs the setup closure
InitProgram ==
  /\ setupResult = NoResult
  /\ elapsed = 0
  /\ startup = [pc |-> "unspawned", answer |-> Pending]
  /\ tasks = <<>>
  /\ emitted = <<>>
  /\ cancelReq = 0

\* a run whose event channel accepts every notification
Init ==
  /\ InitProgram
  /\ emitOk = TRUE

\* a run whose event channel either accepts or refuses notifications
InitAnyChannel ==
  /\ InitProgram
  /\ emitOk \in BOOLEAN

\* .setup(|app| { spawn(async move {...}); Ok(()) })
Setup ==
  /\ setupResult = NoResult
  /\ startup.pc = "unspawned"
  /\ startup' = [startup EXCEPT !.pc = "sleep"]
  /\ setupResult' = Ok("()")
  /\ UNCHANGED <<elapsed, tasks, emitted, cancelReq, emitOk>>

\* one second of the sleep timer of the startup task passes
Tick ==
  /\ startup.pc = "sleep"
  /\ elapsed < GracePeriod
  /\ elapsed' = elapsed + 1
  /\ UNCHANGED <<setupResult, startup, tasks, emitted, cancelReq, emitOk>>

\* the sleep completes; `if let Ok(updater) = app_handle.updater()` and the
\* start of updater.check()
StartupWake ==
  /\ startup.pc = "sleep"
  /\ SleepElapsed
  /\ \E ok \in BOOLEAN :
       startup' = [startup EXCEPT !.pc = IF ok THEN "checking" ELSE "done"]
  /\ UNCHANGED <<setupResult, elapsed, tasks, emitted, cancelReq, emitOk>>

\* updater.check().await resolves in the startup task
StartupAnswer ==
  /\ startup.pc = "checking"
  /\ \E a \in Answers :
       /\ startup' = [pc |-> "done", answer |-> a]
       /\ emitted' = emitted \o CheckEmits(StartupOp, a)
  /\ UNCHANGED <<setupResult, elapsed, tasks, cancelReq, emitOk>>

\* the webview invokes a registered update command; the command runs up to
\* its first await: app.updater().map_err(|e| e.to_string())? and the start
\* of updater.check()
Invoke(cmd) ==
  /\ setupResult # NoResult
  /\ cmd \in Handlers
  /\ Len(tasks) < MaxTasks
  /\ \E updaterOk \in BOOLEAN : tasks' = Append(tasks, NewTask(cmd, updaterOk))
  /\ UNCHANGED <<setupResult, elapsed, startup, emitted, cancelReq, emitOk>>

\* one candidate shared by all commands: a check that finds a release
\* replaces the candidate of every running install
CheckAnswer_SharedCandidate(t) ==
  /\ tasks[t].kind = "check_for_updates"
  /\ tasks[t].pc = "checking"
  /\ \E a \in Answers :
       /\ tasks' = [u \in 1..Len(tasks) |->
                      IF u = t
                        THEN [tasks[u] EXCEPT !.pc = "done", !.answer = a,
                                              !.result = CheckReturn(a)]
                      ELSE IF IsSome(a)
                              /\ tasks[u].pc \in {"downloading", "applying"}
                        THEN [tasks[u] EXCEPT !.answer = a]
                        ELSE tasks[u]]
       /\ emitted' = emitted \o CheckEmits(t, a)
  /\ UNCHANGED <<setupResult, elapsed, startup, cancelReq, emitOk>>

\* updater.check().await resolves in check_for_updates
CheckAnswer(t) ==
  /\ tasks[t].kind = "check_for_updates"
  /\ tasks[t].pc = "checking"
  /\ \E a \in Answers :
       /\ tasks' = [tasks EXCEPT ![t] =
                      [@ EXCEPT !.pc = "done", !.answer = a,
                                !.result = CheckReturn(a)]]
       /\ emitted' = emitted \o CheckEmits(t, a)
  /\ UNCHANGED <<setupResult, elapsed, startup, cancelReq, emitOk>>

\* the candidate of an earlier check reused: when a check has found a
\* release the install downloads without a query of its own
InstallAnswer_ReusesCandidate(t) ==
  /\ tasks[t].kind = "download_and_install_update"
  /\ tasks[t].pc = "checking"
  /\ IF \E u \in 1..Len(tasks) :
          tasks[u].kind = "check_for_updates" /\ IsSome(tasks[u].answer)
       THEN /\ tasks' = [tasks EXCEPT ![t].pc = "downloading"]
            /\ emitted' = emitted \o <<Emit(t, "update-download-started", <<>>)>>
       ELSE \E a \in Answers :
              /\ tasks' = [tasks EXCEPT ![t] =
                             [@ EXCEPT !.pc = InstallNextPc(a), !.answer = a,
                                       !.result = InstallReturn(a)]]
              /\ emitted' = emitted \o InstallEmits(t, a)
  /\ UNCHANGED <<setupResult, elapsed, startup, cancelReq, emitOk>>

\* updater.check().await resolves in download_and_install_update
InstallAnswer(t) ==
  /\ tasks[t].kind = "download_and_install_update"
  /\ tasks[t].pc = "checking"
  /\ \E a \in Answers :
       /\ tasks' = [tasks EXCEPT ![t] =
                      [@ EXCEPT !.pc = InstallNextPc(a), !.answer = a,
                                !.result = InstallReturn(a)]]
       /\ emitted' = emitted \o InstallEmits(t, a)
  /\ UNCHANGED <<setupResult, elapsed, startup, cancelReq, emitOk>>

\* the download stream delivers a chunk and the progress callback runs
ChunkReceived(t) ==
  /\ tasks[t].pc = "downloading"
  /\ tasks[t].chunks < MaxChunks
  /\ tasks' = [tasks EXCEPT ![t].chunks = @ + 1]
  /\ emitted' = emitted \o ProgressCallback(t, tasks[t].chunks + 1)
  /\ UNCHANGED <<setupResult, elapsed, startup, cancelReq, emitOk>>

\* the download stream fails; the partial artifact is dropped with the call
DownloadFails(t) ==
  /\ tasks[t].pc = "downloading"
  /\ tasks' = [tasks EXCEPT ![t] =
                 [@ EXCEPT !.pc = "done", !.chunks = 0,
                           !.result = DownloadFailedReturn("download error")]]
  /\ UNCHANGED <<setupResult, elapsed, startup, emitted, cancelReq, emitOk>>

\* the download stream ends; the plugin hands the artifact to the apply step
DownloadFinished(t) ==
  /\ tasks[t].pc = "downloading"
  /\ tasks' = [tasks EXCEPT ![t] = [@ EXCEPT !.pc = "applying", !.chunks = 0]]
  /\ UNCHANGED <<setupResult, elapsed, startup, emitted, cancelReq, emitOk>>

\* the apply step fails
ApplyFails(t) ==
  /\ tasks[t].pc = "applying"
  /\ tasks' = [tasks EXCEPT ![t] =
                 [@ EXCEPT !.pc = "done",
                           !.result = DownloadFailedReturn("apply error")]]
  /\ UNCHANGED <<setupResult, elapsed, startup, emitted, cancelReq, emitOk>>

\* download_and_install(..).await returns Ok
ApplySucceeds(t) ==
  /\ tasks[t].pc = "applying"
  /\ tasks' = [tasks EXCEPT ![t] =
                 [@ EXCEPT !.pc = "done", !.result = InstallSuccessReturn]]
  /\ UNCHANGED <<setupResult, elapsed, startup, emitted, cancelReq, emitOk>>

\* the webview asks to cancel the running install of task t: no such command
\* is registered with generate_handler!, so the invoke is rejected and the
\* task is left as it is.  cancelReq remembers the task the request named.
RequestCancel(t) ==
  /\ cancelReq = 0
  /\ tasks[t].kind = "download_and_install_update"
  /\ tasks[t].pc \in {"downloading", "applying"}
  /\ "cancel_update" \notin Handlers
  /\ cancelReq' = t
  /\ UNCHANGED <<setupResult, elapsed, startup, tasks, emitted, emitOk>>

Next ==
  \/ Setup
  \/ Tick
  \/ StartupWake
  \/ StartupAnswer
  \/ \E cmd \in {"check_for_updates", "download_and_install_update"} :
       Invoke(cmd)
  \/ \E t \in TaskIds : CheckAnswer(t)
  \/ \E t \in TaskIds : InstallAnswer(t)
  \/ \E t \in TaskIds : ChunkReceived(t)
  \/ \E t \in TaskIds : DownloadFails(t)
  \/ \E t \in TaskIds : DownloadFinished(t)
  \/ \E t \in TaskIds : ApplyFails(t)
  \/ \E t \in TaskIds : ApplySucceeds(t)

\* the steps of Next and, besides, requests to cancel a running install
NextCancel ==
  \/ Next
  \/ \E t \in TaskIds : RequestCancel(t)

\* No step reads emitOk (both emits end in `.ok()`) and RequestCancel changes
\* nothing but cancelReq, so Spec, SpecCancel and SpecEmit show the same
\* behaviours of the commands; the two wider ones are used where a property
\* speaks of a cancel request or of a refused notification.
Spec == Init /\ [][Next]_vars

SpecCancel == Init /\ [][NextCancel]_vars

SpecEmit == InitAnyChannel /\ [][Next]_vars

\* ------------------------------------------------------------ observations
\* the notifications one operation has emitted, in order
EventsOf(op) == SelectSeq(emitted, LAMBDA e : e.op = op)

\* how many notifications named `event` operation op has emitted
CountOf(op, event) ==
  Len(SelectSeq(emitted, LAMBDA e : e.op = op /\ e.event = event))

IsCheck(t) == tasks[t].kind = "check_for_updates"
IsInstall(t) == tasks[t].kind = "download_and_install_update"

TerminalEvents == {"update-installed", "update-failed", "update-cancelled"}

\* ------------------------------------------------------------------ claims

\* C1: every check_for_updates call whose query is answered "no newer
\* release" has returned exactly Ok("No updates available"), is over (no
\* query or download of it is left), and has emitted nothing; and as long as
\* every answered command is such a check, the commands have emitted no
\* notification at all.
C1_NoUpdateChecksAreSilent ==
  /\ \A t \in TaskIds :
       (IsCheck(t) /\ tasks[t].answer = <<"None">>) =>
         /\ tasks[t].pc = "done"
         /\ tasks[t].result = <<"Ok", "No updates available">>
         /\ EventsOf(t) = <<>>
  /\ (\A t \in TaskIds :
        IsCheck(t) /\ tasks[t].answer \in {<<"Pending">>, <<"None">>})
       => \A i \in 1..Len(emitted) : emitted[i].op = StartupOp

C1_Witness ==
  /\ Len(tasks) >= 2
  /\ \A t \in TaskIds :
       IsCheck(t) /\ tasks[t].answer = <<"None">> /\ tasks[t].pc = "done"
  /\ emitted = <<>>

\* C2: a check_for_updates call whose query reports release V with notes N
\* has emitted exactly one notification, 'update-available' with payload
\* {message: N, or "" when the notes are absent; version: V}, and has
\* returned Ok("Update available: V").
C2_UpdateFoundNotifiesOnce ==
  \A t \in TaskIds :
    (IsCheck(t) /\ tasks[t].answer[1] = "Some") =>
      LET V == tasks[t].answer[2]
          N == tasks[t].answer[3]
      IN /\ tasks[t].pc = "done"
         /\ tasks[t].result = <<"Ok", "Update available: " \o V>>
         /\ EventsOf(t) =
              << [op |-> t, event |-> "update-available",
                  payload |-> [message |-> IF N = <<>> THEN "" ELSE N[1],
                               version |-> V]] >>

C2_Witness ==
  \E t, u \in TaskIds :
    /\ IsCheck(t) /\ tasks[t].answer = <<"Some", "1.2.0", <<"bugfixes">>>>
    /\ IsCheck(u) /\ tasks[u].answer = <<"Some", "1.3.0", <<>>>>
    /\ tasks[t].result = <<"Ok", "Update available: 1.2.0">>
    /\ CountOf(t, "update-available") = 1
    /\ CountOf(u, "update-available") = 1

\* C3: a download_and_install_update call whose own query reports no newer
\* release has returned Ok("No updates available"), is not downloading or
\* applying, has received no chunk and has emitted no notification (so no
\* 'update-download-started'); this holds with or without an earlier check.
C3_InstallWithoutUpdateNeverDownloads ==
  \A t \in TaskIds :
    (IsInstall(t) /\ tasks[t].answer = <<"None">>) =>
      /\ tasks[t].pc = "done"
      /\ tasks[t].result = <<"Ok", "No updates available">>
      /\ tasks[t].chunks = 0
      /\ EventsOf(t) = <<>>

C3_Witness ==
  /\ Len(tasks) >= 1
  /\ IsInstall(1)
  /\ tasks[1].answer = <<"None">>
  /\ tasks[1].pc = "done"
  /\ startup.pc = "sleep"

\* C4: at most one download is in progress at any moment, and a second
\* install invoked while the first is downloading starts none.
C4_AtMostOneDownload ==
  Cardinality({t \in TaskIds : tasks[t].pc = "downloading"}) <= 1

\* C5: at most one check or install operation is in flight at any time,
\* the startup check, check_for_updates and download_and_install_update
\* taken together.
C5_AtMostOneOperationInFlight ==
  Cardinality({t \in TaskIds : tasks[t].pc # "done"})
    + (IF startup.pc = "checking" THEN 1 ELSE 0) <= 1

\* C6: an install whose download failed has returned Err and has emitted
\* exactly one 'update-failed' notification.
C6_FailedDownloadNotifiesOnce ==
  \A t \in TaskIds :
    (IsInstall(t) /\ tasks[t].result = <<"Err", "download error">>) =>
      /\ tasks[t].pc = "done"
      /\ CountOf(t, "update-failed") = 1

\* C7: an install that emitted 'update-download-started' and has returned
\* has emitted exactly one terminal notification, after the start one.
C7_StartedInstallEndsWithOneTerminal ==
  \A t \in TaskIds :
    (IsInstall(t) /\ tasks[t].pc = "done"
       /\ CountOf(t, "update-download-started") = 1) =>
      LET ev == EventsOf(t)
      IN /\ ev[1].event = "update-download-started"
         /\ Len(ev) >= 2
         /\ ev[Len(ev)].event \in TerminalEvents
         /\ \A i \in 1..(Len(ev) - 1) : ev[i].event \notin TerminalEvents

\* C8: while an install downloads, one 'update-download-progress'
\* notification has been emitted for each chunk received so far.
C8_ProgressPerChunk ==
  \A t \in TaskIds :
    (IsInstall(t) /\ tasks[t].pc = "downloading") =>
      CountOf(t, "update-download-progress") = tasks[t].chunks

\* C9: once cancellation of an in-flight install has been requested, the
\* install is abandoned: it is no longer downloading or applying, and it
\* has ended neither failed nor installed.
C9_CancelAbandonsInstall ==
  cancelReq # 0 =>
    /\ tasks[cancelReq].pc = "done"
    /\ tasks[cancelReq].result \notin
         {<<"Err", "download error">>, <<"Err", "apply error">>,
          <<"Ok", "Update downloaded and installed successfully">>}

\* C10: setup has returned Ok as soon as the startup task exists, also while
\* that task still sleeps; the startup check's query is issued only from
\* the sleeping task, only when the 5 seconds have passed, and once it has
\* run the task never queries again.
C10_StartupCheckOnceAfterGrace ==
  /\ [](startup.pc # "unspawned" => setupResult = <<"Ok", "()">>)
  /\ [](startup.pc \in {"checking", "done"} => elapsed >= 5)
  /\ [][(startup.pc # "checking" /\ startup'.pc = "checking")
          => (startup.pc = "sleep" /\ elapsed >= 5)]_vars
  /\ [][startup.pc = "done" => startup'.pc = "done"]_vars

C10_Witness ==
  /\ setupResult = <<"Ok", "()">>
  /\ startup.pc = "checking"
  /\ elapsed = 5
  /\ Len(tasks) >= 1

\* C11: the startup check has emitted exactly one 'update-available' with
\* the reported version and notes when its query reported a release, and
\* nothing in every other case (updater not obtained, query failed, no
\* update); setup's result is never an error, and the step in which the
\* startup query resolves changes no command's state or result.
C11_StartupCheckOnlyNotifiesUpdates ==
  /\ [](EventsOf(0) =
          IF startup.answer[1] = "Some"
            THEN << [op |-> 0, event |-> "update-available",
                     payload |->
                       [message |-> IF startup.answer[3] = <<>> THEN ""
                                    ELSE startup.answer[3][1],
                        version |-> startup.answer[2]]] >>
            ELSE <<>>)
  /\ [](setupResult \in {<<>>, <<"Ok", "()">>})
  /\ [][startup'.pc # startup.pc
          => (tasks' = tasks /\ setupResult' \in {<<"Ok", "()">>})]_vars

C11_Witness ==
  /\ startup.pc = "done"
  /\ startup.answer = <<"Err", "network error">>
  /\ emitted = <<>>
  /\ setupResult = <<"Ok", "()">>

\* C12: a check_for_updates call whose query failed has returned Err with
\* the query's cause, one whose updater handle could not be obtained has
\* returned Err too, and neither has emitted any notification.
C12_CheckErrorsReturnedNotBroadcast ==
  \A t \in TaskIds :
    IsCheck(t) =>
      /\ tasks[t].answer[1] = "Err" =>
           /\ tasks[t].pc = "done"
           /\ tasks[t].result = <<"Err", tasks[t].answer[2]>>
           /\ EventsOf(t) = <<>>
      /\ (tasks[t].pc = "done" /\ tasks[t].answer = <<"Pending">>) =>
           /\ tasks[t].result = <<"Err", "updater unavailable">>
           /\ EventsOf(t) = <<>>

C12_Witness ==
  \E t, u \in TaskIds :
    /\ IsCheck(t) /\ tasks[t].result = <<"Err", "network error">>
    /\ IsCheck(u) /\ tasks[u].result = <<"Err", "updater unavailable">>
    /\ emitted = <<>>

\* C13: a check_for_updates call invoked after another one that failed is
\* treated as if the failure had not happened: it is refused only when its
\* own updater handle is unavailable, and once its query is answered its
\* result and notifications are those the answer alone determines.
C13_CheckFailuresNotSticky ==
  \A u, t \in TaskIds :
    (u < t /\ IsCheck(u) /\ IsCheck(t)
       /\ tasks[u].result # <<>> /\ tasks[u].result[1] = "Err") =>
      LET a == tasks[t].answer
      IN /\ (tasks[t].pc = "done" /\ a = <<"Pending">>) =>
              tasks[t].result = <<"Err", "updater unavailable">>
         /\ a = <<"None">> =>
              (tasks[t].result = <<"Ok", "No updates available">>
                 /\ EventsOf(t) = <<>>)
         /\ a[1] = "Err" =>
              (tasks[t].result = <<"Err", a[2]>> /\ EventsOf(t) = <<>>)
         /\ a[1] = "Some" =>
              (tasks[t].result = <<"Ok", "Update available: " \o a[2]>>
                 /\ CountOf(t, "update-available") = 1
                 /\ Len(EventsOf(t)) = 1)

C13_Witness ==
  /\ Len(tasks) >= 2
  /\ IsCheck(1) /\ tasks[1].result = <<"Err", "network error">>
  /\ IsCheck(2) /\ tasks[2].result = <<"Ok", "Update available: 1.3.0">>
  /\ Len(emitted) = 1
  /\ emitted[1].op = 2

\* C14: once an install has failed in its download, an install that enters
\* the download does so with no chunk received and emits its own
\* 'update-download-started'; every install emits that notification once
\* when its query found a release and never otherwise, and a command that
\* has returned is never resumed.
C14_FailedInstallRestartsFromZero ==
  /\ [](\A t \in TaskIds :
          CountOf(t, "update-download-started") =
            IF IsInstall(t) /\ tasks[t].answer[1] = "Some" THEN 1 ELSE 0)
  /\ [][\A t \in TaskIds :
          ((\E u \in TaskIds :
              IsInstall(u) /\ tasks[u].result = <<"Err", "download error">>)
             /\ tasks[t].pc # "downloading" /\ tasks'[t].pc = "downloading")
            => /\ tasks'[t].chunks = 0
               /\ Len(emitted') = Len(emitted) + 1
               /\ emitted'[Len(emitted')].op = t
               /\ emitted'[Len(emitted')].event = "update-download-started"]_vars
  /\ [][\A t \in TaskIds :
          tasks[t].pc = "done" => tasks'[t] = tasks[t]]_vars

C14_Witness ==
  /\ Len(tasks) >= 2
  /\ IsInstall(1) /\ tasks[1].result = <<"Err", "download error">>
  /\ IsInstall(2) /\ tasks[2].pc = "downloading" /\ tasks[2].chunks = 0
  /\ Len(emitted) = 2
  /\ emitted[1].op = 1 /\ emitted[2].op = 2
  /\ emitted[2].event = "update-download-started"

\* C15: once an install has succeeded, no command enters the download.
C15_InstalledIsTerminal ==
  [][(\E t \in TaskIds :
        tasks[t].result = <<"Ok", "Update downloaded and installed successfully">>)
       => \A u \in TaskIds :
            ~(tasks[u].pc # "downloading" /\ tasks'[u].pc = "downloading")]_vars

\* C16: an install that is downloading, applying or installed carries a
\* release its own query reported, and no step changes that release, whatever
\* other checks are answered meanwhile.
C16_CandidateFixedDuringInstall ==
  /\ [](\A t \in TaskIds :
          (tasks[t].pc \in {"downloading", "applying"}
             \/ tasks[t].result =
                  <<"Ok", "Update downloaded and installed successfully">>)
            => (IsInstall(t) /\ tasks[t].answer[1] = "Some"))
  /\ [][\A t \in TaskIds :
          (tasks[t].pc \in {"downloading", "applying"}
             \/ tasks[t].result =
                  <<"Ok", "Update downloaded and installed successfully">>)
            => tasks'[t].answer = tasks[t].answer]_vars

C16_Witness ==
  \E t, u \in TaskIds :
    /\ IsInstall(t) /\ tasks[t].pc \in {"downloading", "applying"}
    /\ tasks[t].answer[1] = "Some" /\ tasks[t].answer[2] = "1.2.0"
    /\ IsCheck(u) /\ tasks[u].answer[1] = "Some"
    /\ tasks[u].answer[2] = "1.3.0"
    /\ Len(emitted) = 2
    /\ emitted[1].op = t /\ emitted[2].op = u

\* C17: every 'update-download-started' notification comes from an install
\* whose own query reported a release, and installs never emit
\* 'update-available'.
C17_InstallQueriesAfresh ==
  /\ \A i \in 1..Len(emitted) :
       emitted[i].event = "update-download-started" =>
         /\ emitted[i].op \in TaskIds
         /\ IsInstall(emitted[i].op)
         /\ tasks[emitted[i].op].answer[1] = "Some"
  /\ \A t \in TaskIds :
       IsInstall(t) => CountOf(t, "update-available") = 0

C17_Witness ==
  \E t, u \in TaskIds :
    /\ IsCheck(u) /\ tasks[u].answer[1] = "Some"
    /\ IsInstall(t) /\ tasks[t].pc = "downloading"
    /\ tasks[t].answer[1] = "Some"
    /\ tasks[t].answer[2] # tasks[u].answer[2]
    /\ Len(emitted) = 2
    /\ emitted[1].op = u /\ emitted[1].event = "update-available"
    /\ emitted[1].payload.version = tasks[u].answer[2]
    /\ emitted[2].op = t /\ emitted[2].event = "update-download-started"

\* C18: an install carries the success string only if its query found a
\* release, it emitted the start notification and it came out of the apply
\* step; a download that stops gives Err("download error"), a failed apply
\* gives Err("apply error"); and it carries Ok("No updates available") only
\* when its query found nothing and no download was started.
C18_InstallResultMatchesOutcome ==
  /\ [](\A t \in TaskIds :
          IsInstall(t) =>
            /\ tasks[t].result =
                 <<"Ok", "Update downloaded and installed successfully">>
                 => (tasks[t].pc = "done" /\ tasks[t].answer[1] = "Some"
                       /\ CountOf(t, "update-download-started") = 1)
            /\ tasks[t].result = <<"Ok", "No updates available">>
                 => (tasks[t].pc = "done" /\ tasks[t].answer = <<"None">>
                       /\ CountOf(t, "update-download-started") = 0))
  /\ [][\A t \in TaskIds :
          /\ (tasks'[t].result =
                <<"Ok", "Update downloaded and installed successfully">>
                /\ tasks'[t].result # tasks[t].result)
               => tasks[t].pc = "applying"
          /\ (tasks[t].pc = "downloading" /\ tasks'[t].pc = "done")
               => tasks'[t].result = <<"Err", "download error">>
          /\ ApplyFails(t) => tasks'[t].result = <<"Err", "apply error">>]_vars

C18_Witness ==
  \E t, u \in TaskIds :
    /\ IsInstall(t)
    /\ tasks[t].result =
         <<"Ok", "Update downloaded and installed successfully">>
    /\ IsInstall(u)
    /\ tasks[u].result = <<"Err", "apply error">>

\* C19: when the event channel refuses notifications, a check whose query
\* reported release V has still returned Ok("Update available: V"), and an
\* install whose query reported a release is still downloading or applying,
\* or has returned what the download and the apply step gave.
C19_EmitFailureChangesNothing ==
  ~emitOk =>
    \A t \in TaskIds :
      tasks[t].answer[1] = "Some" =>
        IF IsCheck(t)
          THEN /\ tasks[t].pc = "done"
               /\ tasks[t].result =
                    <<"Ok", "Update available: " \o tasks[t].answer[2]>>
          ELSE \/ /\ tasks[t].pc \in {"downloading", "applying"}
                  /\ tasks[t].result = <<>>
               \/ /\ tasks[t].pc = "done"
                  /\ tasks[t].result \in
                       {<<"Ok", "Update downloaded and installed successfully">>,
                        <<"Err", "download error">>,
                        <<"Err", "apply error">>}

C19_Witness ==
  /\ ~emitOk
  /\ \E t, u \in TaskIds :
       /\ IsCheck(t)
       /\ tasks[t].result = <<"Ok", "Update available: 1.2.0">>
       /\ IsInstall(u)
       /\ tasks[u].result =
            <<"Ok", "Update downloaded and installed successfully">>

====
